---- MODULE Spec2Model ----
(***************************************************************************)
(* Model of the admin answer-reveal page of the quiz front end             *)
(* (src/src/pages/AdminAnswerRevealPage.tsx): the advance handler          *)
(* handleNextStep, the aggregation effect with processAndFetchData, the    *)
(* break-navigation watcher and the render gates, together with the remote *)
(* game record they read and write.                                        *)
(*                                                                         *)
(* The other admin pages write the record only while they, not the reveal  *)
(* page, are mounted (one admin session); only the scoring collaborator    *)
(* writes while the reveal page is up.  The operator leaves the page by    *)
(* the logo only when no update is being awaited.                          *)
(*                                                                         *)
(* React specifics the model relies on: state set inside a click handler   *)
(* is rendered before the next click is dispatched, effects of a render    *)
(* run before the next event is handled, and a state setter called on an   *)
(* unmounted component does nothing.                                       *)
(***************************************************************************)
EXTENDS Integers, Sequences, FiniteSets, TLC

\* ------------------------------------------------------------------------
\* Bounds and program constants
\* ------------------------------------------------------------------------
MaxQuestions == 9

MaxPasses == 2

MaxInflight == 2

QUESTIONS_PER_CATEGORY == 8

TeamIds == {"t1", "t2", "t3"}

\* team.isActive of the teams getTeamsForGame returns
IsActive(t) == t # "t3"

VARIABLES
    totalQuestions,   \* game.questionOrder.length, fixed at game creation
    questions,        \* indices into questionOrder whose question exists in game.questions
    db,               \* the remote game record: status, currentQuestionIndex, resultsReady
    page,             \* the admin route that is mounted
    gameCode,         \* localStorage has 'gameCode'
    game,             \* useGameRealtimeState: gameData (NoGame = null)
    gameLoading,      \* useGameRealtimeState: loading
    gameError,        \* useGameRealtimeState: error is set
    error,
    loading,
    currentQuestion,  \* index of the question held, -1 = null
    teamAnswers,      \* the pass whose processedAnswersArray is held, 0 = initial []
    rankedTeams,      \* the pass whose rankedTeamsData is held, 0 = initial []
    isLastQuestion,
    isNavigating,
    passes,           \* processAndFetchData invocations of this mount, by start order
    inflight,         \* handleNextStep invocations awaiting updateGameData
    fetched,          \* what one pass fetched: the teams, each with its answer result and score
    processedAnswersArray,  \* the sorted answer board computed from fetched
    rankedTeamsData,  \* the ranking computed from fetched
    question,         \* a Question as held in currentQuestion
    derivedCorrectAnswerText,
    computed,         \* the computation on fetched / question has run
    teamsData,        \* the remote teams of the game code: isActive of each, or absent
    qrMounted,        \* QRCodePage is mounted
    qrSetup,          \* setupTeamsListener of every run of the effect, by start order
    qrListener,       \* the runs of the effect whose onValue listener is registered
    qrCleanup,        \* the cleanup of every run of the effect
    qrTeams           \* QRCodePage: teams

calcVars == <<fetched, processedAnswersArray, rankedTeamsData, question,
              derivedCorrectAnswerText, computed>>
qrVars == <<teamsData, qrMounted, qrSetup, qrListener, qrCleanup, qrTeams>>
staticVars == <<totalQuestions, questions, calcVars, qrVars>>
gameVars == <<staticVars, db>>
pageVars == <<totalQuestions, questions, db, page, gameCode, game, gameLoading,
              gameError, error, loading, currentQuestion, teamAnswers,
              rankedTeams, isLastQuestion, isNavigating, passes, inflight>>
hookVars == <<game, gameLoading, gameError>>
dataVars == <<currentQuestion, teamAnswers, rankedTeams, isLastQuestion>>
compVars == <<error, loading, currentQuestion, teamAnswers, rankedTeams,
              isLastQuestion, isNavigating>>
vars == <<totalQuestions, questions, db, page, gameCode, game, gameLoading,
          gameError, error, loading, currentQuestion, teamAnswers, rankedTeams,
          isLastQuestion, isNavigating, passes, inflight, calcVars, qrVars>>

GameStatus == {"lobby", "question_display", "answer_reveal", "leaderboard",
               "break", "game_end"}

NoGame == [status |-> "none", currentQuestionIndex |-> -1, resultsReady |-> FALSE]

ActiveTeams == {t \in TeamIds : IsActive(t)}

\* ------------------------------------------------------------------------
\* Pure parts of handleNextStep and of the effects
\* ------------------------------------------------------------------------

\* isBreakTime / shouldBeBreakTime
IsBreakTime(g) ==
    LET nextQuestionIndex == g.currentQuestionIndex + 1
        isEndOfGame == nextQuestionIndex >= totalQuestions
    IN  /\ nextQuestionIndex > 0
        /\ nextQuestionIndex % QUESTIONS_PER_CATEGORY = 0
        /\ ~isEndOfGame

\* handleNextStep with the next-question branch not resetting resultsReady
NextStep_KeepsResultsReady(g) ==
    LET nextQuestionIndex == g.currentQuestionIndex + 1
        isEndOfGame == nextQuestionIndex >= totalQuestions
    IN  IF isEndOfGame
        THEN [updates |-> [status |-> "game_end"],
              nextRoute |-> "winners", shouldNavigate |-> TRUE]
        ELSE IF IsBreakTime(g)
        THEN [updates |-> [status |-> "leaderboard"],
              nextRoute |-> "break", shouldNavigate |-> FALSE]
        ELSE [updates |-> [status |-> "question_display",
                           currentQuestionIndex |-> nextQuestionIndex],
              nextRoute |-> "question", shouldNavigate |-> TRUE]

\* handleNextStep with isEndOfGame computed with > instead of >=
NextStep_EndOffByOne(g) ==
    LET nextQuestionIndex == g.currentQuestionIndex + 1
        isEndOfGame == nextQuestionIndex > totalQuestions
    IN  IF isEndOfGame
        THEN [updates |-> [status |-> "game_end"],
              nextRoute |-> "winners", shouldNavigate |-> TRUE]
        ELSE IF IsBreakTime(g)
        THEN [updates |-> [status |-> "leaderboard"],
              nextRoute |-> "break", shouldNavigate |-> FALSE]
        ELSE [updates |-> [status |-> "question_display",
                           currentQuestionIndex |-> nextQuestionIndex,
                           resultsReady |-> FALSE],
              nextRoute |-> "question", shouldNavigate |-> TRUE]

\* handleNextStep with the break branch also moving to the next index
NextStep_BreakAdvancesIndex(g) ==
    LET nextQuestionIndex == g.currentQuestionIndex + 1
        isEndOfGame == nextQuestionIndex >= totalQuestions
    IN  IF isEndOfGame
        THEN [updates |-> [status |-> "game_end"],
              nextRoute |-> "winners", shouldNavigate |-> TRUE]
        ELSE IF IsBreakTime(g)
        THEN [updates |-> [status |-> "leaderboard",
                           currentQuestionIndex |-> nextQuestionIndex],
              nextRoute |-> "break", shouldNavigate |-> FALSE]
        ELSE [updates |-> [status |-> "question_display",
                           currentQuestionIndex |-> nextQuestionIndex,
                           resultsReady |-> FALSE],
              nextRoute |-> "question", shouldNavigate |-> TRUE]

\* handleNextStep with the game_end branch also moving to the next index
NextStep_EndAdvancesIndex(g) ==
    LET nextQuestionIndex == g.currentQuestionIndex + 1
        isEndOfGame == nextQuestionIndex >= totalQuestions
    IN  IF isEndOfGame
        THEN [updates |-> [status |-> "game_end",
                           currentQuestionIndex |-> nextQuestionIndex],
              nextRoute |-> "winners", shouldNavigate |-> TRUE]
        ELSE IF IsBreakTime(g)
        THEN [updates |-> [status |-> "leaderboard"],
              nextRoute |-> "break", shouldNavigate |-> FALSE]
        ELSE [updates |-> [status |-> "question_display",
                           currentQuestionIndex |-> nextQuestionIndex,
                           resultsReady |-> FALSE],
              nextRoute |-> "question", shouldNavigate |-> TRUE]

\* The branch of handleNextStep: the partial update, the route and whether
\* the handler itself navigates.
NextStep(g) ==
    LET nextQuestionIndex == g.currentQuestionIndex + 1
        isEndOfGame == nextQuestionIndex >= totalQuestions
    IN  IF isEndOfGame
        THEN [updates |-> [status |-> "game_end"],
              nextRoute |-> "winners", shouldNavigate |-> TRUE]
        ELSE IF IsBreakTime(g)
        THEN [updates |-> [status |-> "leaderboard"],
              nextRoute |-> "break", shouldNavigate |-> FALSE]
        ELSE [updates |-> [status |-> "question_display",
                           currentQuestionIndex |-> nextQuestionIndex,
                           resultsReady |-> FALSE],
              nextRoute |-> "question", shouldNavigate |-> TRUE]

\* updateGameData: the store applies a multi-field update as one unit
ApplyUpdate(rec, updates) ==
    [f \in DOMAIN rec |-> IF f \in DOMAIN updates THEN updates[f] ELSE rec[f]]

\* the first early return without the isNavigating test
HandlerBlocked_NoGuard == ~gameCode \/ game = NoGame

\* the first early return of handleNextStep
HandlerBlocked == ~gameCode \/ game = NoGame \/ isNavigating

\* the condition under which the aggregation effect starts a pass
Qualifies(g) == g.status = "answer_reveal" /\ g.resultsReady = TRUE

\* const displayError = error || gameError?.message
displayError == error # "none" \/ gameError

\* the page renders the spinner
ShowsLoading == ~displayError /\ (loading \/ gameLoading)

\* the page renders the question, the answer board and the ranking
ShowsResults ==
    /\ page = "reveal"
    /\ ~displayError
    /\ ~(loading \/ gameLoading)
    /\ game # NoGame
    /\ currentQuestion # -1

\* the advance button is part of the render unless the error screen is shown
ButtonOffered == page = "reveal" /\ ~displayError

RunningPasses == {i \in 1..Len(passes) : passes[i].stage \in {"teams", "answers", "scores"}}

\* ------------------------------------------------------------------------
\* Component state as one value, so that an effect is a function of it
\* ------------------------------------------------------------------------
Cur ==
    [page |-> page, error |-> error, loading |-> loading,
     currentQuestion |-> currentQuestion, teamAnswers |-> teamAnswers,
     rankedTeams |-> rankedTeams, isLastQuestion |-> isLastQuestion,
     isNavigating |-> isNavigating, passes |-> passes]

\* the useState initial values
Fresh ==
    [page |-> "reveal", error |-> "none", loading |-> TRUE,
     currentQuestion |-> -1, teamAnswers |-> 0, rankedTeams |-> 0,
     isLastQuestion |-> FALSE, isNavigating |-> FALSE, passes |-> <<>>]

\* processAndFetchData up to its first await
StartPass(c, g) ==
    LET currentQuestionIndex == g.currentQuestionIndex
    IN  IF \/ currentQuestionIndex < 0
           \/ currentQuestionIndex >= totalQuestions
           \/ currentQuestionIndex \notin questions
        THEN [c EXCEPT !.error = "processing",
                       !.loading = FALSE,
                       !.passes = Append(@, [stage |-> "err", pending |-> {}])]
        ELSE [c EXCEPT !.loading = TRUE,
                       !.currentQuestion = currentQuestionIndex,
                       !.isLastQuestion = (currentQuestionIndex >= totalQuestions - 1),
                       !.passes = Append(@, [stage |-> "teams", pending |-> {}])]

\* setLoading(true) whatever the status
WaitingLoading_Always(g) == TRUE

\* the non-qualifying branch of the aggregation effect
WaitingLoading(g) == g.status = "answer_reveal"

\* the aggregation effect, run by every render in which game changed
AggregationEffect(c, code, g, gLoading, gError) ==
    IF ~code
    THEN [c EXCEPT !.error = "missing_code"]
    ELSE IF gLoading \/ gError \/ g = NoGame
    THEN [c EXCEPT !.loading = TRUE]
    ELSE IF ~Qualifies(g)
    THEN [c EXCEPT !.loading = WaitingLoading(g)]
    ELSE StartPass(c, g)

\* the watcher without the !isNavigating test
WatcherEffect_IgnoresGuard(c, g) ==
    IF g.status = "leaderboard" /\ IsBreakTime(g)
    THEN [c EXCEPT !.isNavigating = TRUE, !.page = "break"]
    ELSE c

\* the break-navigation watcher effect
WatcherEffect(c, g) ==
    IF g.status = "leaderboard" /\ ~c.isNavigating /\ IsBreakTime(g)
    THEN [c EXCEPT !.isNavigating = TRUE, !.page = "break"]
    ELSE c

\* Write a component state back.  Leaving the route unmounts the component:
\* its state and its subscription are gone and the passes still running can
\* no longer change anything.
Render(c, g, gLoading, gError, q) ==
    IF c.page = "reveal"
    THEN /\ page' = "reveal"
         /\ error' = c.error
         /\ loading' = c.loading
         /\ currentQuestion' = c.currentQuestion
         /\ teamAnswers' = c.teamAnswers
         /\ rankedTeams' = c.rankedTeams
         /\ isLastQuestion' = c.isLastQuestion
         /\ isNavigating' = c.isNavigating
         /\ passes' = c.passes
         /\ game' = g
         /\ gameLoading' = gLoading
         /\ gameError' = gError
         /\ inflight' = q
    ELSE /\ page' = c.page
         /\ error' = Fresh.error
         /\ loading' = Fresh.loading
         /\ currentQuestion' = Fresh.currentQuestion
         /\ teamAnswers' = Fresh.teamAnswers
         /\ rankedTeams' = Fresh.rankedTeams
         /\ isLastQuestion' = Fresh.isLastQuestion
         /\ isNavigating' = Fresh.isNavigating
         /\ passes' = Fresh.passes
         /\ game' = NoGame
         /\ gameLoading' = TRUE
         /\ gameError' = FALSE
         /\ inflight' = q

RemoveAt(q, i) == [j \in 1..(Len(q) - 1) |-> IF j < i THEN q[j] ELSE q[j + 1]]

\* ------------------------------------------------------------------------
\* Initial state: a game just created, the reveal page not mounted
\* ------------------------------------------------------------------------

\* The lengths of questionOrder explored: consecutive lengths around the
\* category block size, so that the last question both is and is not the
\* last of a block and a break is followed by at least one more question.
QuestionCounts == {MaxQuestions - 1, MaxQuestions}

\* ------------------------------------------------------------------------
\* The computations of processAndFetchData and of the render, as functions
\* ------------------------------------------------------------------------

\* absent values
NoResult == [selectedAnswer |-> "absent", isCorrect |-> "null",
             pointsAwarded |-> -1, answerIndex |-> -1]

NoScore == -1

NullPoints == -1

\* the pass taking every team of the game
ActiveOnly_Everyone(all) == all

\* const activeTeams = allTeamsForGame.filter(team => team.isActive !== false)
ActiveOnly(all) == SelectSeq(all, LAMBDA team : team.isActive # "false")

\* team.name || `Team ${team.id.substring(0, 4)}`; names are numbers in
\* collation order and 0 is the empty name; an id is a number whose tens are
\* its first four characters, and the made-up names follow the given ones
TeamName(team) == IF team.name = 0 THEN 100 + (team.id \div 10) ELSE team.name

\* the map over teamResults with the unanswered row giving null points
TeamRow_NullPoints(team) ==
    IF team.result # NoResult
    THEN [teamId |-> team.id,
          teamName |-> TeamName(team),
          selectedAnswer |-> team.result.selectedAnswer,
          isCorrect |-> team.result.isCorrect,
          pointsAwarded |-> team.result.pointsAwarded,
          answerIndex |-> team.result.answerIndex]
    ELSE [teamId |-> team.id,
          teamName |-> TeamName(team),
          selectedAnswer |-> "nije odgovoreno",
          isCorrect |-> "null",
          pointsAwarded |-> NullPoints,
          answerIndex |-> -1]

\* the map over teamResults: one TeamAnswerDisplay per team
TeamRow(team) ==
    IF team.result # NoResult
    THEN [teamId |-> team.id,
          teamName |-> TeamName(team),
          selectedAnswer |-> team.result.selectedAnswer,
          isCorrect |-> team.result.isCorrect,
          pointsAwarded |-> team.result.pointsAwarded,
          answerIndex |-> team.result.answerIndex]
    ELSE [teamId |-> team.id,
          teamName |-> TeamName(team),
          selectedAnswer |-> "nije odgovoreno",
          isCorrect |-> "null",
          pointsAwarded |-> 0,
          answerIndex |-> -1]

\* a.isCorrect ?? false
Correct(row) == row.isCorrect = "true"

\* a.pointsAwarded ?? 0
PointsOrZero(row) == IF row.pointsAwarded = NullPoints THEN 0 ELSE row.pointsAwarded

\* the comparator without the final localeCompare
AnswerCompare_NoNameTieBreak(a, b) ==
    IF Correct(a) # Correct(b) THEN (IF Correct(b) THEN 1 ELSE -1)
    ELSE IF PointsOrZero(a) # PointsOrZero(b) THEN PointsOrZero(b) - PointsOrZero(a)
    ELSE 0

\* the comparator of processedAnswersArray.sort
AnswerCompare(a, b) ==
    IF Correct(a) # Correct(b) THEN (IF Correct(b) THEN 1 ELSE -1)
    ELSE IF PointsOrZero(a) # PointsOrZero(b) THEN PointsOrZero(b) - PointsOrZero(a)
    ELSE IF a.teamName < b.teamName THEN -1
    ELSE IF a.teamName > b.teamName THEN 1
    ELSE 0

\* Array.prototype.sort is stable: a row goes after the last row that does
\* not have to follow it
RECURSIVE InsertAnswer(_, _)
InsertAnswer(sorted, row) ==
    IF sorted = <<>> THEN <<row>>
    ELSE IF AnswerCompare(sorted[Len(sorted)], row) > 0
    THEN Append(InsertAnswer(SubSeq(sorted, 1, Len(sorted) - 1), row), sorted[Len(sorted)])
    ELSE Append(sorted, row)

RECURSIVE SortAnswers(_)
SortAnswers(rows) ==
    IF rows = <<>> THEN <<>>
    ELSE InsertAnswer(SortAnswers(SubSeq(rows, 1, Len(rows) - 1)), rows[Len(rows)])

\* steps 3 of the pass: the rows of the active teams, sorted
ProcessAnswers(all) ==
    LET activeTeams == ActiveOnly(all)
    IN  SortAnswers([i \in 1..Len(activeTeams) |-> TeamRow(activeTeams[i])])

\* allScores[team.id]?.totalScore || 0
TeamPoints(team) == IF team.score = NoScore THEN 0 ELSE team.score

\* [...teamsWithScores].sort((a, b) => b.points - a.points), stable
RECURSIVE InsertByPoints(_, _)
InsertByPoints(sorted, team) ==
    IF sorted = <<>> THEN <<team>>
    ELSE IF team.points - sorted[Len(sorted)].points > 0
    THEN Append(InsertByPoints(SubSeq(sorted, 1, Len(sorted) - 1), team), sorted[Len(sorted)])
    ELSE Append(sorted, team)

RECURSIVE SortByPoints(_)
SortByPoints(withScores) ==
    IF withScores = <<>> THEN <<>>
    ELSE InsertByPoints(SortByPoints(SubSeq(withScores, 1, Len(withScores) - 1)),
                        withScores[Len(withScores)])

\* the rank moving on by one at every drop of the score
NextRank_Dense(index, currentRank, drops) ==
    IF drops THEN currentRank + 1 ELSE currentRank

\* if (index > 0 && team.points < previousPoints) currentRank = index + 1
NextRank(index, currentRank, drops) ==
    IF drops THEN index + 1 ELSE currentRank

\* teamsArray.forEach((team, index) => ...): currentRank and previousPoints
\* are the loop's variables, index is 0-based
RECURSIVE AssignRanks(_, _, _, _, _)
AssignRanks(teamsArray, index, currentRank, previousPoints, rankedSoFar) ==
    IF index >= Len(teamsArray) THEN rankedSoFar
    ELSE LET team == teamsArray[index + 1]
             drops == index > 0 /\ team.points < previousPoints
             rank == NextRank(index, currentRank, drops)
         IN  AssignRanks(teamsArray, index + 1, rank,
                         IF drops THEN team.points ELSE previousPoints,
                         Append(rankedSoFar,
                                [id |-> team.id, points |-> team.points,
                                 rank |-> rank]))

\* steps 5 and 6 of the pass
RankTeams(all) ==
    LET activeTeams == ActiveOnly(all)
        teamsWithScores == [i \in 1..Len(activeTeams) |->
                              [id |-> activeTeams[i].id,
                               points |-> TeamPoints(activeTeams[i])]]
        teamsArray == SortByPoints(teamsWithScores)
    IN  IF Len(teamsArray) > 0
        THEN AssignRanks(teamsArray, 0, 1, teamsArray[1].points, <<>>)
        ELSE <<>>

\* the values the calculation variables have while nothing is calculated
NoQuestion == [category |-> "none", hasOptions |-> FALSE, options |-> <<>>,
               correctAnswerIndex |-> -2, correctAnswer |-> "undefined"]

\* an absent correctAnswerIndex, an absent correctAnswer, and the value of
\* an array element that does not exist
NoIndex == -2

NoText == "undefined"

Undefined == "undefined"

\* a string is truthy unless it is empty
Truthy(text) == text # NoText /\ text # ""

\* the render's let derivedCorrectAnswerText ... (q is currentQuestion)
DeriveCorrectAnswerText(q) ==
    IF q = NoQuestion THEN "N/A"
    ELSE IF q.category = "Pogodite crtani"
    THEN (IF Truthy(q.correctAnswer) THEN q.correctAnswer
          ELSE "Greska: Tacan odgovor nedostaje u podacima pitanja")
    ELSE IF q.hasOptions /\ q.correctAnswerIndex # NoIndex /\ q.correctAnswerIndex >= 0
    THEN (IF q.correctAnswerIndex + 1 \in DOMAIN q.options
          THEN q.options[q.correctAnswerIndex + 1]
          ELSE Undefined)
    ELSE IF Truthy(q.correctAnswer) THEN q.correctAnswer
    ELSE "N/A"

CalcIdle ==
    /\ fetched = <<>>
    /\ processedAnswersArray = <<>>
    /\ rankedTeamsData = <<>>
    /\ question = NoQuestion
    /\ derivedCorrectAnswerText = "N/A"
    /\ computed = FALSE

QrIdle ==
    /\ teamsData = <<>>
    /\ qrMounted = FALSE
    /\ qrSetup = <<>>
    /\ qrListener = {}
    /\ qrCleanup = <<>>
    /\ qrTeams = {}

PageInit ==
    /\ totalQuestions \in QuestionCounts
    /\ questions \in {0..(totalQuestions - 1), 1..(totalQuestions - 1)}
    /\ db = [status |-> "lobby", currentQuestionIndex |-> 0, resultsReady |-> FALSE]
    /\ page = "admin"
    /\ gameCode = TRUE
    /\ game = NoGame
    /\ gameLoading = TRUE
    /\ gameError = FALSE
    /\ error = Fresh.error
    /\ loading = Fresh.loading
    /\ currentQuestion = Fresh.currentQuestion
    /\ teamAnswers = Fresh.teamAnswers
    /\ rankedTeams = Fresh.rankedTeams
    /\ isLastQuestion = Fresh.isLastQuestion
    /\ isNavigating = Fresh.isNavigating
    /\ passes = Fresh.passes
    /\ inflight = <<>>

Init ==
    /\ PageInit
    /\ CalcIdle
    /\ QrIdle

\* the reveal page before its first game record, for the specifications of
\* the computations
PageIdle ==
    /\ PageInit
    /\ totalQuestions = MaxQuestions
    /\ questions = 0..(totalQuestions - 1)

\* ------------------------------------------------------------------------
\* The rest of the admin flow, which writes the game record between reveals
\* ------------------------------------------------------------------------
EnvStartGame ==
    /\ page # "reveal"
    /\ db.status = "lobby"
    /\ db' = [db EXCEPT !.status = "question_display"]
    /\ UNCHANGED <<staticVars, page, gameCode, hookVars, compVars,
                   passes, inflight>>

EnvReveal ==
    /\ page # "reveal"
    /\ db.status = "question_display"
    /\ db' = [db EXCEPT !.status = "answer_reveal", !.resultsReady = FALSE]
    /\ UNCHANGED <<staticVars, page, gameCode, hookVars, compVars,
                   passes, inflight>>

EnvResultsReady ==
    /\ db.status = "answer_reveal"
    /\ db.resultsReady = FALSE
    /\ db' = [db EXCEPT !.resultsReady = TRUE]
    /\ UNCHANGED <<staticVars, page, gameCode, hookVars, compVars,
                   passes, inflight>>

EnvBreak ==
    /\ page # "reveal"
    /\ db.status = "leaderboard"
    /\ db' = [db EXCEPT !.status = "break"]
    /\ UNCHANGED <<staticVars, page, gameCode, hookVars, compVars,
                   passes, inflight>>

EnvBreakOver ==
    /\ page # "reveal"
    /\ db.status = "break"
    /\ db.currentQuestionIndex + 1 < totalQuestions
    /\ db' = [db EXCEPT !.status = "question_display",
                        !.currentQuestionIndex = @ + 1,
                        !.resultsReady = FALSE]
    /\ UNCHANGED <<staticVars, page, gameCode, hookVars, compVars,
                   passes, inflight>>

\* ------------------------------------------------------------------------
\* The reveal page
\* ------------------------------------------------------------------------

\* the route is entered: first render and its effects
Mount ==
    /\ page # "reveal"
    /\ \E code \in BOOLEAN :
          /\ gameCode' = code
          /\ Render(WatcherEffect(AggregationEffect(Fresh, code, NoGame, TRUE, FALSE), NoGame),
                    NoGame, TRUE, FALSE, inflight)
    /\ UNCHANGED gameVars

\* setTimeout(() => navigate('/admin'), 1500) of the missing-game-code branch
RedirectTimer ==
    /\ page = "reveal"
    /\ ~gameCode
    /\ Render([Cur EXCEPT !.page = "admin"], game, gameLoading, gameError, inflight)
    /\ UNCHANGED <<gameVars, gameCode>>

\* the logo and the error screen's button: navigate('/admin')
LeavePage ==
    /\ page = "reveal"
    /\ inflight = <<>>
    /\ Render([Cur EXCEPT !.page = "admin"], game, gameLoading, gameError, inflight)
    /\ UNCHANGED <<gameVars, gameCode>>

\* the subscription delivers the latest value of the game record
Deliver ==
    /\ page = "reveal"
    /\ gameCode
    /\ ~gameError
    /\ Qualifies(db) => Len(passes) < MaxPasses
    /\ Render(WatcherEffect(AggregationEffect(Cur, gameCode, db, FALSE, FALSE), db),
              db, FALSE, FALSE, inflight)
    /\ UNCHANGED <<gameVars, gameCode>>

\* the subscription reports an error
SubscriptionError ==
    /\ page = "reveal"
    /\ gameCode
    /\ ~gameError
    /\ Render(WatcherEffect(AggregationEffect(Cur, gameCode, game, gameLoading, TRUE), game),
              game, gameLoading, TRUE, inflight)
    /\ UNCHANGED <<gameVars, gameCode>>

\* click on the advance button: handleNextStep up to await updateGameData
Click ==
    /\ ButtonOffered
    /\ IF HandlerBlocked
       THEN UNCHANGED <<gameVars, page, gameCode, hookVars, compVars, passes, inflight>>
       ELSE /\ Len(inflight) < MaxInflight
                    /\ isNavigating' = TRUE
            /\ inflight' = Append(inflight,
                   [updates |-> NextStep(game).updates,
                    nextRoute |-> NextStep(game).nextRoute,
                    shouldNavigate |-> NextStep(game).shouldNavigate,
                    stage |-> "sent"])
            /\ UNCHANGED <<gameVars, page, gameCode, hookVars, error, loading,
                           dataVars, passes>>

\* the store applies the update
UpdateCommit(i) ==
    /\ inflight[i].stage = "sent"
    /\ db' = ApplyUpdate(db, inflight[i].updates)
    /\ inflight' = [inflight EXCEPT ![i].stage = "committed"]
    /\ UNCHANGED <<staticVars, page, gameCode, hookVars, compVars,
                   passes>>

\* await updateGameData returns: the rest of the try block
UpdateResolved(i) ==
    /\ inflight[i].stage = "committed"
    /\ LET h == inflight[i]
           c == IF h.shouldNavigate
                THEN [Cur EXCEPT !.page = h.nextRoute]
                ELSE WatcherEffect([Cur EXCEPT !.isNavigating = FALSE], game)
       IN  Render(c, game, gameLoading, gameError, RemoveAt(inflight, i))
    /\ UNCHANGED <<gameVars, gameCode>>

\* updateGameData rejects: the catch block
UpdateFailed(i) ==
    /\ inflight[i].stage = "sent"
    /\ LET h == inflight[i]
           c == WatcherEffect([Cur EXCEPT !.error = "update_failed",
                                           !.isNavigating = FALSE], game)
       IN  Render(c, game, gameLoading, gameError, RemoveAt(inflight, i))
    /\ UNCHANGED <<gameVars, gameCode>>

\* ------------------------------------------------------------------------
\* processAndFetchData after its first await
\* ------------------------------------------------------------------------

\* Promise.all(answerPromises) resolves: map, sort, setTeamAnswers, and the
\* pass goes on to await getAllScoresForGame
AnswersJoined(c, i) ==
    [c EXCEPT !.teamAnswers = i, !.passes[i].stage = "scores"]

\* getTeamsForGame resolves: filter the active teams, fan out one
\* getTeamAnswerResult per team
TeamsFetched(i) ==
    /\ page = "reveal"
    /\ i \in RunningPasses
    /\ passes[i].stage = "teams"
    /\ LET c == [Cur EXCEPT !.passes[i] = [stage |-> "answers", pending |-> ActiveTeams]]
       IN  Render(IF ActiveTeams = {} THEN AnswersJoined(c, i) ELSE c,
                  game, gameLoading, gameError, inflight)
    /\ UNCHANGED <<gameVars, gameCode>>

\* one getTeamAnswerResult resolves (with a result or with null); the last
\* one resolves Promise.all
AnswerFetched(i, t) ==
    /\ page = "reveal"
    /\ i \in RunningPasses
    /\ passes[i].stage = "answers"
    /\ t \in passes[i].pending
    /\ LET c == [Cur EXCEPT !.passes[i].pending = @ \ {t}]
       IN  Render(IF c.passes[i].pending = {} THEN AnswersJoined(c, i) ELSE c,
                  game, gameLoading, gameError, inflight)
    /\ UNCHANGED <<gameVars, gameCode>>

\* getAllScoresForGame resolves: rank, setRankedTeams, setError(null), finally
ScoresFetched(i) ==
    /\ page = "reveal"
    /\ i \in RunningPasses
    /\ passes[i].stage = "scores"
    /\ Render([Cur EXCEPT !.rankedTeams = i,
                          !.error = "none",
                          !.loading = FALSE,
                          !.passes[i].stage = "ok"],
              game, gameLoading, gameError, inflight)
    /\ UNCHANGED <<gameVars, gameCode>>

\* the catch block without the finally block
FetchFailed_NoFinally(i) ==
    /\ page = "reveal"
    /\ i \in RunningPasses
    /\ Render([Cur EXCEPT !.error = "processing",
                          !.passes[i] = [stage |-> "err", pending |-> {}]],
              game, gameLoading, gameError, inflight)
    /\ UNCHANGED <<gameVars, gameCode>>

\* the awaited fetch of the pass rejects: catch, finally
FetchFailed(i) ==
    /\ page = "reveal"
    /\ i \in RunningPasses
    /\ Render([Cur EXCEPT !.error = "processing",
                          !.loading = FALSE,
                          !.passes[i] = [stage |-> "err", pending |-> {}]],
              game, gameLoading, gameError, inflight)
    /\ UNCHANGED <<gameVars, gameCode>>

Next ==
    \/ EnvStartGame
    \/ EnvReveal
    \/ EnvResultsReady
    \/ EnvBreak
    \/ EnvBreakOver
    \/ Mount
    \/ RedirectTimer
    \/ LeavePage
    \/ Deliver
    \/ SubscriptionError
    \/ Click
    \/ \E i \in 1..MaxInflight : i <= Len(inflight) /\ UpdateCommit(i)
    \/ \E i \in 1..MaxInflight : i <= Len(inflight) /\ UpdateResolved(i)
    \/ \E i \in 1..MaxInflight : i <= Len(inflight) /\ UpdateFailed(i)
    \/ \E i \in 1..MaxPasses : TeamsFetched(i)
    \/ \E i \in 1..MaxPasses, t \in TeamIds : AnswerFetched(i, t)
    \/ \E i \in 1..MaxPasses : ScoresFetched(i)
    \/ \E i \in 1..MaxPasses : FetchFailed(i)

Spec == Init /\ [][Next]_vars

\* The scheduling properties are explored on the longest order, which has a
\* break boundary followed by a last question, with the data of its first
\* question missing, so that a pass meets both kinds of abort.
FairInit ==
    /\ Init
    /\ totalQuestions = MaxQuestions
    /\ questions = 1..(totalQuestions - 1)

\* Scheduling: the subscription delivers the latest value of the record,
\* an awaited update is applied and returns or fails, and every fetch of a
\* pass returns or fails.
FairSpec ==
    /\ FairInit
    /\ [][Next]_vars
    /\ WF_vars(Deliver)
    /\ \A i \in 1..MaxInflight :
         WF_vars(i <= Len(inflight)
                 /\ (UpdateCommit(i) \/ UpdateResolved(i) \/ UpdateFailed(i)))
    /\ \A i \in 1..MaxPasses :
         WF_vars(\/ TeamsFetched(i)
                 \/ \E t \in TeamIds : AnswerFetched(i, t)
                 \/ ScoresFetched(i)
                 \/ FetchFailed(i))

\* ------------------------------------------------------------------------
\* The ranking of one pass, over every list of fetched teams and scores
\* ------------------------------------------------------------------------
MaxRankTeams == 6

\* allScores[team.id]?.totalScore: no entry, or a total
Scores == {NoScore, 0, 10, 30, 50}

\* a team of getTeamsForGame with what the pass fetched for it
FetchedTeam(id, name, isActive, result, score) ==
    [id |-> id, name |-> name, isActive |-> isActive, result |-> result,
     score |-> score]

RankInit ==
    /\ PageIdle
    /\ QrIdle
    /\ \E n \in 0..MaxRankTeams :
         \E scores \in [1..n -> Scores] :
           fetched = [i \in 1..n |-> FetchedTeam(i, i, "true", NoResult, scores[i])]
    /\ processedAnswersArray = <<>>
    /\ rankedTeamsData = <<>>
    /\ question = NoQuestion
    /\ derivedCorrectAnswerText = "N/A"
    /\ computed = FALSE

\* steps 5 and 6 of processAndFetchData
ComputeRanks ==
    /\ ~computed
    /\ rankedTeamsData' = RankTeams(fetched)
    /\ computed' = TRUE
    /\ UNCHANGED <<pageVars, qrVars, fetched, processedAnswersArray, question,
                   derivedCorrectAnswerText>>

RankNext == ComputeRanks

SpecRank == RankInit /\ [][RankNext]_vars

\* ------------------------------------------------------------------------
\* The answer board of one pass, over every list of fetched teams and results
\* ------------------------------------------------------------------------
MaxBoardTeams == 3

\* team.name: empty, or one of two names
Names == {0, 1, 2}

\* what getTeamAnswerResult resolves to: null, or a TeamAnswerResult
Results ==
    {NoResult,
     [selectedAnswer |-> "a", isCorrect |-> "true", pointsAwarded |-> 2, answerIndex |-> 0],
     [selectedAnswer |-> "a", isCorrect |-> "true", pointsAwarded |-> 1, answerIndex |-> 0],
     [selectedAnswer |-> "a", isCorrect |-> "true", pointsAwarded |-> NullPoints, answerIndex |-> 0],
     [selectedAnswer |-> "b", isCorrect |-> "false", pointsAwarded |-> 1, answerIndex |-> 1],
     [selectedAnswer |-> "b", isCorrect |-> "false", pointsAwarded |-> 0, answerIndex |-> 1]}

\* the id of the i-th team: the first two share their first four characters
BoardTeamId(i) == 10 * ((i + 1) \div 2) + i

BoardInit ==
    /\ PageIdle
    /\ QrIdle
    /\ \E n \in 0..MaxBoardTeams :
         \E names \in [1..n -> Names] :
           \E results \in [1..n -> Results] :
             fetched = [i \in 1..n |->
                          FetchedTeam(BoardTeamId(i), names[i], "true", results[i], NoScore)]
    /\ processedAnswersArray = <<>>
    /\ rankedTeamsData = <<>>
    /\ question = NoQuestion
    /\ derivedCorrectAnswerText = "N/A"
    /\ computed = FALSE

\* step 3 of processAndFetchData, after Promise.all
ComputeBoard ==
    /\ ~computed
    /\ processedAnswersArray' = ProcessAnswers(fetched)
    /\ computed' = TRUE
    /\ UNCHANGED <<pageVars, qrVars, fetched, rankedTeamsData, question,
                   derivedCorrectAnswerText>>

BoardNext == ComputeBoard

SpecBoard == BoardInit /\ [][BoardNext]_vars

\* ------------------------------------------------------------------------
\* The correct-answer text of the render, over every question
\* ------------------------------------------------------------------------
MaxOptions == 2

OptionTexts == {"a", "b"}

OptionLists == UNION {[1..n -> OptionTexts] : n \in 0..MaxOptions}

Questions ==
    {NoQuestion} \cup
    [category : {"Pogodite crtani", "Ko zna zna"},
     hasOptions : {TRUE},
     options : OptionLists,
     correctAnswerIndex : {NoIndex} \cup (-1..MaxOptions),
     correctAnswer : {NoText, "", "x"}] \cup
    [category : {"Pogodite crtani", "Ko zna zna"},
     hasOptions : {FALSE},
     options : {<<>>},
     correctAnswerIndex : {NoIndex} \cup (-1..MaxOptions),
     correctAnswer : {NoText, "", "x"}]

TextInit ==
    /\ PageIdle
    /\ QrIdle
    /\ fetched = <<>>
    /\ processedAnswersArray = <<>>
    /\ rankedTeamsData = <<>>
    /\ question \in Questions
    /\ derivedCorrectAnswerText = "N/A"
    /\ computed = FALSE

\* a render of the page with currentQuestion = question
RenderText ==
    /\ ~computed
    /\ derivedCorrectAnswerText' = DeriveCorrectAnswerText(question)
    /\ computed' = TRUE
    /\ UNCHANGED <<pageVars, qrVars, fetched, processedAnswersArray,
                   rankedTeamsData, question>>

TextNext == RenderText

SpecText == TextInit /\ [][TextNext]_vars

\* ------------------------------------------------------------------------
\* QRCodePage's teams listener, and the teams a pass of the reveal page sees
\* ------------------------------------------------------------------------
MaxEffects == 2

MaxQrTeams == 2

QrTeamIds == 1..MaxQrTeams

\* a team of the game code: not there, or there with isActive true, false
\* or not set
TeamStates == {"absent", "true", "false", "undefined"}

\* getTeamsForGame(gameCode): the teams of the game, in the order of their ids
TeamsForGame(data) ==
    SelectSeq([t \in QrTeamIds |-> FetchedTeam(t, t, data[t], NoResult, NoScore)],
              LAMBDA team : team.isActive # "absent")

\* the listener's filter letting through only the teams with isActive true
SnapshotTeams_OnlyTrue(data) ==
    {t \in QrTeamIds : data[t] = "true"}

\* Object.values(teamsData).filter(team => team.isActive !== false), and []
\* when the snapshot does not exist
SnapshotTeams(data) ==
    {t \in QrTeamIds : data[t] # "absent" /\ data[t] # "false"}

\* the run of the effect whose component is on screen
CurrentEffect == Len(qrSetup)

QrInit ==
    /\ PageIdle
    /\ CalcIdle
    /\ teamsData \in [QrTeamIds -> TeamStates]
    /\ qrMounted = FALSE
    /\ qrSetup = <<>>
    /\ qrListener = {}
    /\ qrCleanup = <<>>
    /\ qrTeams = {}

\* the page is opened: the effect calls setupTeamsListener, which awaits getDb
QrMount ==
    /\ ~qrMounted
    /\ Len(qrSetup) < MaxEffects
    /\ qrMounted' = TRUE
    /\ qrSetup' = Append(qrSetup, "pending")
    /\ qrCleanup' = Append(qrCleanup, "none")
    /\ qrTeams' = {}
    /\ UNCHANGED <<pageVars, calcVars, teamsData, qrListener>>

\* getDb resolved with a database: onValue registers the listener and the
\* promise of the run resolves with unsubscribe
QrDbResolved(i) ==
    /\ i \in DOMAIN qrSetup
    /\ qrSetup[i] = "pending"
    /\ qrSetup' = [qrSetup EXCEPT ![i] = "registered"]
    /\ qrListener' = qrListener \cup {i}
    /\ UNCHANGED <<pageVars, calcVars, teamsData, qrMounted, qrCleanup, qrTeams>>

\* getDb resolved with nothing: the run resolves with a function that does
\* nothing
QrDbNull(i) ==
    /\ i \in DOMAIN qrSetup
    /\ qrSetup[i] = "pending"
    /\ qrSetup' = [qrSetup EXCEPT ![i] = "empty"]
    /\ UNCHANGED <<pageVars, calcVars, teamsData, qrMounted, qrListener,
                   qrCleanup, qrTeams>>

\* getDb (or the query) threw: the catch block resolves the run with a
\* function that does nothing
QrDbFailed(i) ==
    /\ i \in DOMAIN qrSetup
    /\ qrSetup[i] = "pending"
    /\ qrSetup' = [qrSetup EXCEPT ![i] = "failed"]
    /\ UNCHANGED <<pageVars, calcVars, teamsData, qrMounted, qrListener,
                   qrCleanup, qrTeams>>

\* the page is closed: the cleanup chains a callback on the promise of the run
QrUnmount ==
    /\ qrMounted
    /\ qrMounted' = FALSE
    /\ qrCleanup' = [qrCleanup EXCEPT ![CurrentEffect] = "requested"]
    /\ UNCHANGED <<pageVars, calcVars, teamsData, qrSetup, qrListener, qrTeams>>

\* the cleanup's callback marking the run done and leaving the listener
QrThen_KeepsListener(i) ==
    /\ i \in DOMAIN qrSetup
    /\ qrCleanup[i] = "requested"
    /\ qrSetup[i] # "pending"
    /\ qrCleanup' = [qrCleanup EXCEPT ![i] = "done"]
    /\ UNCHANGED <<pageVars, calcVars, teamsData, qrMounted, qrSetup,
                   qrListener, qrTeams>>

\* unsubscribePromise.then(unsubscribe => unsubscribe && unsubscribe()),
\* run once the promise of the run has resolved
QrThen(i) ==
    /\ i \in DOMAIN qrSetup
    /\ qrCleanup[i] = "requested"
    /\ qrSetup[i] # "pending"
    /\ qrCleanup' = [qrCleanup EXCEPT ![i] = "done"]
    /\ qrListener' = qrListener \ {i}
    /\ UNCHANGED <<pageVars, calcVars, teamsData, qrMounted, qrSetup, qrTeams>>

\* the listener's callback; setTeams of a component that is gone does nothing
QrSnapshot(i) ==
    /\ i \in qrListener
    /\ qrMounted
    /\ i = CurrentEffect
    /\ qrTeams' = SnapshotTeams(teamsData)
    /\ UNCHANGED <<pageVars, calcVars, teamsData, qrMounted, qrSetup,
                   qrListener, qrCleanup>>

\* a pass of the reveal page over the teams of the same game code
Aggregate ==
    /\ ~computed
    /\ fetched' = TeamsForGame(teamsData)
    /\ processedAnswersArray' = ProcessAnswers(fetched')
    /\ rankedTeamsData' = RankTeams(fetched')
    /\ computed' = TRUE
    /\ UNCHANGED <<pageVars, qrVars, question, derivedCorrectAnswerText>>

QrNext ==
    \/ QrMount
    \/ QrUnmount
    \/ Aggregate
    \/ \E i \in 1..MaxEffects :
         \/ QrDbResolved(i)
         \/ QrDbNull(i)
         \/ QrDbFailed(i)
         \/ QrThen(i)
         \/ QrSnapshot(i)

SpecQR == QrInit /\ [][QrNext]_vars

\* one game for the scheduling properties: a team that left and the others
\* without the isActive field
FairQrInit ==
    /\ QrInit
    /\ teamsData = [t \in QrTeamIds |-> IF t = 1 THEN "false" ELSE "undefined"]

\* Scheduling: getDb settles, and a callback chained on a resolved promise
\* is run.
FairSpecQR ==
    /\ FairQrInit
    /\ [][QrNext]_vars
    /\ \A i \in 1..MaxEffects :
         /\ WF_vars(QrDbResolved(i) \/ QrDbNull(i) \/ QrDbFailed(i))
         /\ WF_vars(QrThen(i))

\* ------------------------------------------------------------------------
\* Properties of the advance handler
\* ------------------------------------------------------------------------

\* a step in which handleNextStep passed its first return and set the guard
AdvanceAccepted == page = "reveal" /\ ~isNavigating /\ isNavigating'

\* a step in which the store applied the update of invocation i
Committed(i) ==
    /\ i <= Len(inflight)
    /\ Len(inflight') = Len(inflight)
    /\ inflight[i].stage = "sent"
    /\ inflight'[i].stage = "committed"

\* a step in which the catch block of the only running invocation ran
UpdateFailureStep ==
    /\ Len(inflight) = 1
    /\ inflight[1].stage = "sent"
    /\ inflight' = <<>>

\* C1: an advance taken at an index that is neither the last one nor the
\* last of a category block issues exactly one update, holding
\* status = question_display, currentQuestionIndex = old index + 1 and
\* resultsReady = false together, and the store applies the three fields in
\* one step, so that the new status is never in the record with the old
\* index or with resultsReady still true.
C1_NextQuestionUpdate ==
    [][ /\ ( /\ AdvanceAccepted
             /\ game.currentQuestionIndex + 1 < totalQuestions
             /\ (game.currentQuestionIndex + 1) % QUESTIONS_PER_CATEGORY # 0 )
           => inflight' = Append(inflight,
                  [updates |-> [status |-> "question_display",
                                currentQuestionIndex |-> game.currentQuestionIndex + 1,
                                resultsReady |-> FALSE],
                   nextRoute |-> "question",
                   shouldNavigate |-> TRUE,
                   stage |-> "sent"])
        /\ \A i \in 1..MaxInflight :
             (Committed(i) /\ inflight[i].updates.status = "question_display")
               => /\ db'.status = "question_display"
                  /\ db'.currentQuestionIndex = inflight[i].updates.currentQuestionIndex
                  /\ db'.resultsReady = FALSE
      ]_vars

\* C1 witness: the update of an advance from index 2 has been applied
C1_Witness ==
    /\ Len(inflight) = 1
    /\ inflight[1].stage = "committed"
    /\ inflight[1].updates = [status |-> "question_display",
                              currentQuestionIndex |-> 3,
                              resultsReady |-> FALSE]
    /\ db = [status |-> "question_display", currentQuestionIndex |-> 3,
             resultsReady |-> FALSE]

\* C2: an advance taken at the last index issues an update that holds
\* status = game_end and no other field, also when the next index is a
\* multiple of the category block size.
C2_GameEndUpdate ==
    [][ /\ ( /\ AdvanceAccepted
             /\ game.currentQuestionIndex + 1 >= totalQuestions )
           => /\ Len(inflight') = Len(inflight) + 1
              /\ inflight'[Len(inflight')].updates = [status |-> "game_end"]
        /\ \A i \in 1..MaxInflight :
             (Committed(i) /\ inflight[i].updates.status = "game_end")
               => db' = [db EXCEPT !.status = "game_end"]
      ]_vars

\* C2 witness: game_end has been written from the last index, which is also
\* the last index of a category block
C2_Witness ==
    /\ Len(inflight) = 1
    /\ inflight[1].stage = "committed"
    /\ inflight[1].updates = [status |-> "game_end"]
    /\ db.status = "game_end"
    /\ db.currentQuestionIndex + 1 = totalQuestions
    /\ (db.currentQuestionIndex + 1) % QUESTIONS_PER_CATEGORY = 0

\* C3: an advance taken at the last index of a category block that is not
\* the last index issues an update that holds status = leaderboard only;
\* applying it leaves currentQuestionIndex and resultsReady as they were.
C3_BreakUpdate ==
    [][ /\ ( /\ AdvanceAccepted
             /\ game.currentQuestionIndex + 1 < totalQuestions
             /\ (game.currentQuestionIndex + 1) % QUESTIONS_PER_CATEGORY = 0 )
           => /\ Len(inflight') = Len(inflight) + 1
              /\ inflight'[Len(inflight')].updates = [status |-> "leaderboard"]
        /\ \A i \in 1..MaxInflight :
             (Committed(i) /\ inflight[i].updates.status = "leaderboard")
               => /\ db'.status = "leaderboard"
                  /\ db'.currentQuestionIndex = db.currentQuestionIndex
                  /\ db'.resultsReady = db.resultsReady
      ]_vars

\* C3 witness: leaderboard has been written from index 7 and the index is
\* still 7, the results still marked ready
C3_Witness ==
    /\ Len(inflight) = 1
    /\ inflight[1].stage = "committed"
    /\ inflight[1].updates = [status |-> "leaderboard"]
    /\ db = [status |-> "leaderboard", currentQuestionIndex |-> 7,
             resultsReady |-> TRUE]

\* C4: an advance is accepted only when the snapshot has
\* status = answer_reveal and resultsReady = true; in any other state no
\* update is issued.
C4_AdvanceOnlyWhenRevealReady ==
    [][ Len(inflight') > Len(inflight) => Qualifies(game) ]_vars

\* C5: while an update of an advance is awaited, a further trigger issues no
\* update: at most one invocation is ever awaiting, the guard is set for as
\* long as it is, and the index in the record moves by at most one per step.
C5_SingleTransition ==
    [][ /\ Len(inflight) <= 1
        /\ (Len(inflight) = 1 /\ page = "reveal") => isNavigating
        /\ Len(inflight) = 1 => Len(inflight') <= 1
        /\ db'.currentQuestionIndex \in {db.currentQuestionIndex,
                                         db.currentQuestionIndex + 1}
      ]_vars

\* C5 witness: the update is awaited and the button is still there to be
\* clicked a second time
C5_Witness ==
    /\ Len(inflight) = 1
    /\ inflight[1].stage = "sent"
    /\ ButtonOffered
    /\ HandlerBlocked

\* C6: when the update fails, an error is set, the record is untouched, the
\* guard is reset, and the advance can be triggered again at once.
C6_RetryAfterFailure ==
    [][ (UpdateFailureStep /\ Qualifies(game))
          => /\ error' # "none"
             /\ db' = db
             /\ ~isNavigating'
             /\ ButtonOffered'
             /\ ~HandlerBlocked'
      ]_vars

\* ------------------------------------------------------------------------
\* Properties of the aggregation effect
\* ------------------------------------------------------------------------

\* a step in which the mounted page receives a snapshot that differs from
\* the one it held and does not satisfy the precondition of the pass
NonQualifyingDelivery ==
    /\ page = "reveal"
    /\ page' = "reveal"
    /\ game' # game
    /\ ~Qualifies(game')

\* C7 as stated: on every delivered snapshot with status # answer_reveal or
\* resultsReady # true no pass is started and the page shows the loading
\* indicator.
C7_LoadingUnlessQualifying ==
    [][ (NonQualifyingDelivery /\ ~displayError')
          => /\ passes' = passes
             /\ ShowsLoading'
      ]_vars

\* C7 amended: on every delivered snapshot with status # answer_reveal or
\* resultsReady # true no pass is started, the data held is left as it is,
\* and the loading flag is set to (status = answer_reveal): the indicator is
\* asked for only while the results of a reveal are awaited.
C7_NoPassUnlessQualifying ==
    [][ NonQualifyingDelivery
          => /\ passes' = passes
             /\ <<currentQuestion, teamAnswers, rankedTeams, isLastQuestion>>' =
                <<currentQuestion, teamAnswers, rankedTeams, isLastQuestion>>
             /\ loading' = (game'.status = "answer_reveal")
      ]_vars

\* C7 witness: a snapshot with another status has been delivered while the
\* results of a completed pass are held; they are rendered, not the spinner
C7_Witness ==
    /\ ShowsResults
    /\ game.status \notin {"answer_reveal", "none"}
    /\ teamAnswers >= 1
    /\ rankedTeams >= 1

\* C8: when all passes of the page have finished successfully, the answer
\* board and the ranking held are those of the pass started last.
C8_LatestPassWins ==
    ( /\ page = "reveal"
      /\ Len(passes) >= 2
      /\ \A i \in 1..Len(passes) : passes[i].stage = "ok" )
    => (teamAnswers = Len(passes) /\ rankedTeams = Len(passes))

\* C9: a pass that was aborted by a failed fetch has written none of the
\* data held: neither the answer board nor the ranking is its.
C9_AbortedPassWroteNothing ==
    \A i \in 1..Len(passes) :
        passes[i].stage = "err" => (teamAnswers # i /\ rankedTeams # i)

\* C10: whenever the page renders results, the answer board and the ranking
\* are those of one and the same pass, and that pass has completed.
C10_NoPartialResults ==
    ShowsResults
      => /\ teamAnswers = rankedTeams
         /\ teamAnswers \in 1..Len(passes)
         /\ passes[teamAnswers].stage = "ok"

\* ------------------------------------------------------------------------
\* Properties of the game record under advances
\* ------------------------------------------------------------------------

\* C14: while status is not game_end the index in the record satisfies
\* 0 <= currentQuestionIndex < length(questionOrder), and no advance issues
\* an update whose index is at or beyond length(questionOrder).
C14_IndexInRange ==
    /\ db.status # "game_end"
         => (0 <= db.currentQuestionIndex /\ db.currentQuestionIndex < totalQuestions)
    /\ \A i \in 1..Len(inflight) :
         "currentQuestionIndex" \in DOMAIN inflight[i].updates
           => /\ 0 <= inflight[i].updates.currentQuestionIndex
              /\ inflight[i].updates.currentQuestionIndex < totalQuestions

\* C14 witness: an advance has written the last index of the order
C14_Witness ==
    /\ Len(inflight) = 1
    /\ inflight[1].stage = "committed"
    /\ "currentQuestionIndex" \in DOMAIN inflight[1].updates
    /\ db.currentQuestionIndex = totalQuestions - 1
    /\ db.status = "question_display"

\* C16: once status is game_end, no step changes status,
\* currentQuestionIndex or resultsReady, whatever advances are triggered.
C16_GameEndTerminal ==
    [][ db.status = "game_end" => db' = db ]_vars

\* C16 witness: an advance triggered on a game that had already ended has
\* been applied
C16_Witness ==
    /\ page = "reveal"
    /\ game.status = "game_end"
    /\ Len(inflight) = 1
    /\ inflight[1].stage = "committed"
    /\ db.status = "game_end"

\* ------------------------------------------------------------------------
\* Properties that need the scheduling assumptions
\* ------------------------------------------------------------------------

\* C17: the page goes to the break route only by the watcher: no awaiting
\* invocation of the handler navigates there or is left awaiting, and the
\* snapshot the watcher sees has status = leaderboard at a break boundary.
\* Once the record says leaderboard at a break boundary, the mounted page
\* gets to the break route, unless the operator leaves for the admin page
\* or the subscription fails, in whichever order the snapshot and the reset
\* of the guard arrive.
C17_WatcherNavigatesToBreak ==
    /\ [][ (page = "reveal" /\ page' = "break")
             => /\ \A i \in 1..Len(inflight) : ~inflight[i].shouldNavigate
                /\ inflight' = <<>>
                /\ \/ game.status = "leaderboard" /\ IsBreakTime(game)
                   \/ /\ inflight = <<>>
                      /\ ~isNavigating
                      /\ db.status = "leaderboard"
                      /\ IsBreakTime(db)
         ]_vars
    /\ (page = "reveal" /\ gameCode /\ db.status = "leaderboard" /\ IsBreakTime(db))
         ~> (page \in {"break", "admin"} \/ gameError)

\* C17 witness: after an advance at index 7 the page is on the break route
C17_Witness ==
    /\ page = "break"
    /\ db = [status |-> "leaderboard", currentQuestionIndex |-> 7,
             resultsReady |-> TRUE]
    /\ inflight = <<>>

\* C20: a pass that ends, by success or by abort, ends with loading = false;
\* error goes back to null only in the step in which a pass completes its
\* last fetch; and whenever passes are running, a state follows in which
\* none is.
C20_PassEndsNotLoading ==
    /\ [][ /\ \A i \in 1..MaxPasses :
                ( /\ page' = "reveal"
                  /\ i <= Len(passes')
                  /\ passes'[i].stage \in {"ok", "err"}
                  /\ (i > Len(passes) \/ passes[i].stage \notin {"ok", "err"}) )
                => loading' = FALSE
           /\ (page = "reveal" /\ page' = "reveal" /\ error # "none" /\ error' = "none")
                => \E i \in 1..Len(passes) :
                     passes[i].stage = "scores" /\ passes'[i].stage = "ok"
         ]_vars
    /\ (RunningPasses # {}) ~> (RunningPasses = {})

\* C20 witness: a pass aborted by a failed fetch has ended, loading is off
\* and its error is shown
C20_Witness ==
    /\ page = "reveal"
    /\ Len(passes) = 1
    /\ passes[1].stage = "err"
    /\ teamAnswers = 1
    /\ error = "processing"
    /\ ~loading

\* ------------------------------------------------------------------------
\* Properties of the ranking
\* ------------------------------------------------------------------------

\* C11: the ranking lists every team once with its score (no score counting
\* as 0), in descending order of score, the first team has rank 1, and the
\* rank of every team is 1 plus the number of teams with a strictly greater
\* score.
C11_CompetitionRanking ==
    computed =>
      LET r == rankedTeamsData
          n == Len(fetched)
      IN  /\ Len(r) = n
          /\ {r[i].id : i \in 1..n} = {fetched[i].id : i \in 1..n}
          /\ \A i \in 1..n : r[i].points = TeamPoints(fetched[r[i].id])
          /\ \A i \in 1..n : \A j \in 1..n : i < j => r[i].points >= r[j].points
          /\ n > 0 => r[1].rank = 1
          /\ \A i \in 1..n :
               r[i].rank = 1 + Cardinality({j \in 1..n : r[j].points > r[i].points})

\* scores 50, 50, 30, 30, 30, 10 ranked 1, 1, 3, 3, 3, 6
C11_Witness ==
    /\ computed
    /\ Len(rankedTeamsData) = 6
    /\ [i \in 1..6 |-> rankedTeamsData[i].points] = <<50, 50, 30, 30, 30, 10>>
    /\ [i \in 1..6 |-> rankedTeamsData[i].rank] = <<1, 1, 3, 3, 3, 6>>


\* ------------------------------------------------------------------------
\* Properties of the answer board
\* ------------------------------------------------------------------------

\* the fetched teams in another order
Reordered(f) == [i \in DOMAIN f |-> fetched[f[i]]]

Orders == {f \in [DOMAIN fetched -> DOMAIN fetched] :
             \A i \in DOMAIN f : \A j \in DOMAIN f : f[i] = f[j] => i = j}

\* C12: on the answer board the rows with isCorrect = true precede the
\* others, rows of equal correctness are in descending order of
\* pointsAwarded (none counting as 0), rows equal in both are in ascending
\* order of team name, and when the team names are distinct the board is
\* the same for every order of the fetched teams.
C12_BoardOrder ==
    computed =>
      LET b == processedAnswersArray
          pts(row) == IF row.pointsAwarded = NullPoints THEN 0 ELSE row.pointsAwarded
          ok(row) == row.isCorrect = "true"
      IN  /\ \A i \in DOMAIN b : \A j \in DOMAIN b :
               i < j =>
                 /\ ok(b[j]) => ok(b[i])
                 /\ ok(b[i]) = ok(b[j]) => pts(b[i]) >= pts(b[j])
                 /\ (ok(b[i]) = ok(b[j]) /\ pts(b[i]) = pts(b[j]))
                      => b[i].teamName <= b[j].teamName
          /\ (\A i \in DOMAIN b : \A j \in DOMAIN b :
                b[i].teamName = b[j].teamName => i = j)
               => \A f \in Orders : ProcessAnswers(Reordered(f)) = b

\* three teams of distinct names, the last fetched being the only correct
\* one and the other two tied and fetched in descending order of name
C12_Witness ==
    /\ computed
    /\ Len(fetched) = 3
    /\ fetched[3].result.isCorrect = "true"
    /\ fetched[1].result = fetched[2].result
    /\ fetched[1].result.isCorrect = "false"
    /\ TeamName(fetched[1]) > TeamName(fetched[2])
    /\ [i \in 1..3 |-> processedAnswersArray[i].teamId]
         = <<fetched[3].id, fetched[2].id, fetched[1].id>>

C18_CorrectAnswerText ==
    (computed /\ question # NoQuestion) =>
      LET q == question
          present == q.correctAnswer # NoText /\ q.correctAnswer # ""
          resolved == /\ q.hasOptions
                      /\ q.correctAnswerIndex # NoIndex
                      /\ q.correctAnswerIndex + 1 \in DOMAIN q.options
      IN  derivedCorrectAnswerText =
            IF q.category = "Pogodite crtani"
            THEN (IF present THEN q.correctAnswer
                  ELSE "Greska: Tacan odgovor nedostaje u podacima pitanja")
            ELSE IF resolved THEN q.options[q.correctAnswerIndex + 1]
            ELSE IF present THEN q.correctAnswer
            ELSE "N/A"


\* ------------------------------------------------------------------------
\* Properties of the teams taking part and of the teams listener
\* ------------------------------------------------------------------------

\* the teams of the game code whose isActive is not false
TakingPart == {t \in QrTeamIds : teamsData[t] \in {"true", "undefined"}}

\* C15: the answer board and the ranking of a pass each have exactly one
\* entry for every team of the game whose isActive is not false and none
\* for the others, and the teams QRCodePage counts are, once a snapshot has
\* set them, the teams whose isActive is not false.
C15_OnlyActiveTeams ==
    /\ computed =>
         /\ Len(processedAnswersArray) = Cardinality(TakingPart)
         /\ {processedAnswersArray[k].teamId : k \in DOMAIN processedAnswersArray}
              = TakingPart
         /\ Len(rankedTeamsData) = Cardinality(TakingPart)
         /\ {rankedTeamsData[k].id : k \in DOMAIN rankedTeamsData} = TakingPart
    /\ qrTeams # {} => qrTeams = TakingPart

\* a game with a team that left and a single team taking part, after a
\* pass and a snapshot
C15_Witness ==
    /\ computed
    /\ \E t \in QrTeamIds : teamsData[t] = "false"
    /\ \E t \in QrTeamIds : teamsData[t] = "true"
    /\ Len(processedAnswersArray) = 1
    /\ Cardinality(qrTeams) = 1

\* C19: once the cleanup's callback has run no listener of that run is
\* registered, a failed setup never has one, and a cleanup that was asked
\* for, whether before or after getDb settled, leads to the callback having
\* run with the listener of the run unsubscribed.
C19_ListenerUnsubscribed ==
    /\ [](\A i \in DOMAIN qrSetup :
            /\ qrCleanup[i] = "done" => i \notin qrListener
            /\ qrSetup[i] \in {"failed", "empty", "pending"} => i \notin qrListener)
    /\ \A i \in 1..MaxEffects :
         (i \in DOMAIN qrCleanup /\ qrCleanup[i] = "requested")
           ~> (i \in DOMAIN qrCleanup /\ qrCleanup[i] = "done" /\ i \notin qrListener)

\* the first run was torn down and its registered listener is gone, the
\* second run was torn down while getDb is pending
C19_Witness ==
    /\ Len(qrSetup) = 2
    /\ qrSetup[1] = "registered" /\ qrCleanup[1] = "done" /\ 1 \notin qrListener
    /\ qrSetup[2] = "pending" /\ qrCleanup[2] = "requested"


====
